---- MODULE Spec2Model ----
(***************************************************************************)
(* A model of absurd-future: the AbsurdFuture adapter (src/src/lib.rs)     *)
(* and the fail-fast task group of the tokio example                        *)
(* (src/examples/tokio.rs).                                                 *)
(*                                                                          *)
(* A task is polled by the runtime when it has been notified; one poll is   *)
(* one atomic step that runs the task's body up to its next await.  The     *)
(* runtime (spawn, timers, abort, join_next) is the external collaborator:  *)
(* its steps are modelled at the places where the source calls it.          *)
(***************************************************************************)
EXTENDS Integers, Sequences, FiniteSets, TLC

\* ------------------------------------------------------------------ bounds

\* Largest number of tasks a group spawns.
MaxTasks == 2

\* Largest number of tasks of a group that nothing disturbs (QuietSpec).
MaxQuietTasks == 3

\* Largest number of sleeps a task completes.
MaxCycles == 3

\* ------------------------------------------------------- program constants

\* A faulty task_two: the counter starts one lower.
CounterInitZero == 1 - 1

\* `let mut counter = 1;`
CounterInit == 1

\* `if counter >= 3`
CounterLimit == 3

\* ------------------------------------------------------------------ values

Tasks == 1..(IF MaxTasks > MaxQuietTasks THEN MaxTasks ELSE MaxQuietTasks)

\* std::convert::Infallible: an enum with no variants, hence no values.
Infallible == {}

\* The kinds of member task the example defines: "one" is
\* absurd_future(task_one()), "two" is task_two().
Kinds == {"one", "two"}

\* The messages task bodies bail with.
CounterMsg == "Counter is >= 3"

AppErrors == {CounterMsg}

\* A value of Result<Infallible, anyhow::Error>, the output type of every
\* member task: Ok(v) needs v \in Infallible, so only Err(e), which carries
\* a message, has values.
NoValue == [r |-> "-", msg |-> "-"]

ResErr(m) == [r |-> "Err", msg |-> m]

\* std::task::Poll, plus the unwinding of a panic out of poll.
PollPending == [p |-> "Pending", v |-> NoValue]

PollReady(v) == [p |-> "Ready", v |-> v]

PollPanic == [p |-> "Panic", v |-> NoValue]

NotPolled == [p |-> "none", v |-> NoValue]

\* What join_next yields for one task: Result<Result<Infallible>, JoinError>.
NoOutcome == [outer |-> "-", val |-> NoValue, repr |-> "-", id |-> 0]

JoinOk(v) == [outer |-> "Ok", val |-> v, repr |-> "-", id |-> 0]

JoinErr(repr, id) == [outer |-> "Err", val |-> NoValue, repr |-> repr, id |-> id]

\* Option<...> returned by join_next.
WaitNone == [some |-> FALSE, res |-> NoOutcome]

WaitSome(o) == [some |-> TRUE, res |-> o]

\* The local state of a task body.
FutInit == [started |-> FALSE, counter |-> 0, cycles |-> 0]

\* ------------------------------------------------------------- task bodies

\* One poll of task_one(): a resumed poll first completes the sleep it was
\* suspended on; then the loop prints (println! panics when stdout cannot
\* be written, stdoutOk = FALSE) and suspends on a new sleep.  The body has
\* no path to a return.
TaskOnePoll(s, stdoutOk) ==
    LET woke == IF s.started
                THEN [s EXCEPT !.cycles = @ + 1]
                ELSE [s EXCEPT !.started = TRUE]
    IN  IF stdoutOk
        THEN [res |-> PollPending, s |-> woke]
        ELSE [res |-> PollPanic, s |-> woke]

\* One poll of task_two(): the first poll sets the counter; a resumed poll
\* completes the sleep and tests the counter, bailing when it is >= 3;
\* otherwise the loop prints, increments the counter and sleeps.
TaskTwoPoll(s, stdoutOk) ==
    LET woke == IF s.started
                THEN [s EXCEPT !.cycles = @ + 1]
                ELSE [s EXCEPT !.started = TRUE, !.counter = CounterInit]
    IN  IF s.started /\ woke.counter >= CounterLimit
        THEN [res |-> PollReady(ResErr(CounterMsg)), s |-> woke]
        ELSE IF stdoutOk
             THEN [res |-> PollPending,
                   s |-> [woke EXCEPT !.counter = @ + 1]]
             ELSE [res |-> PollPanic, s |-> woke]

\* ----------------------------------------------------------------- adapter

\* A faulty constructor: it polls the inner future once while wrapping it.
AbsurdFutureNewPolls(inner) == TaskOnePoll(inner, TRUE).s

\* AbsurdFuture::new / absurd_future: the inner future is moved into the
\* box as it is; the PhantomData marker carries no state.
AbsurdFutureNew(inner) == inner

\* `match never {}`: a match with no arm on a value of the empty type.
Absurd(never) == CHOOSE t \in Infallible : TRUE

\* A faulty adapter: it completes with a value of T when the inner
\* future has suspended once already.
AbsurdFuturePollCompletes(s, stdoutOk) ==
    LET in == TaskOnePoll(s, stdoutOk)
    IN  [res |-> IF in.res = PollPending /\ s.started
                 THEN PollReady(ResErr("adapter"))
                 ELSE in.res,
         s |-> in.s, innerRes |-> <<in.res>>]

\* A faulty adapter: it polls the inner future again when it suspends.
AbsurdFuturePollTwice(s, stdoutOk) ==
    LET in == TaskOnePoll(s, stdoutOk)
        again == TaskOnePoll(in.s, stdoutOk)
    IN  IF in.res = PollPending
        THEN [res |-> again.res, s |-> again.s,
              innerRes |-> <<in.res, again.res>>]
        ELSE [res |-> in.res, s |-> in.s, innerRes |-> <<in.res>>]

\* A faulty adapter: it catches a panic of the inner poll and reports the
\* future as still suspended.
AbsurdFuturePollSwallows(s, stdoutOk) ==
    LET in == TaskOnePoll(s, stdoutOk)
    IN  [res |-> PollPending, s |-> in.s, innerRes |-> <<in.res>>]

\* AbsurdFuture::poll: polls the inner future once; Pending is forwarded,
\* Ready(never) is matched with no arm; a panic of the inner poll unwinds
\* through.  innerRes lists the results of the inner polls it made.
AbsurdFuturePoll(s, stdoutOk) ==
    LET in == TaskOnePoll(s, stdoutOk)
    IN  [res |-> IF in.res = PollPending THEN PollPending
                 ELSE IF in.res = PollPanic THEN PollPanic
                 ELSE Absurd(in.res.v),
         s |-> in.s, innerRes |-> <<in.res>>]

\* The number of suspension signals among poll results rs.
RECURSIVE Pendings(_)
Pendings(rs) ==
    IF rs = <<>> THEN 0
    ELSE (IF Head(rs) = PollPending THEN 1 ELSE 0) + Pendings(Tail(rs))

\* -------------------------------------------------------------- task group

\* `{e}`: the Display of the error interpolated into the report, as a
\* sequence of words.  An anyhow error displays its message; a JoinError
\* displays "task <id> was cancelled" or "task <id> panicked".
DisplayAppErr(v) == <<v.msg>>

DisplayJoinErr(o) ==
    <<"task", ToString(o.id),
      IF o.repr = "Cancelled" THEN "was cancelled" ELSE "panicked">>

\* The three messages main_inner bails with.
ImpossibleMsg == <<"Impossible: Infallible witnessed!">>

NoTasksMsg == <<"No tasks found in task set">>

TaskExited(detail) == <<"Task exited with">> \o detail

\* anyhow's bail!: return Err(message).
Bail(msg) == [r |-> "Err", msg |-> msg]

\* A faulty match: the reports leave the error out.
MatchJoinNextNoDetail(w) ==
    IF ~w.some
    THEN [abort |-> TRUE, ret |-> Bail(NoTasksMsg)]
    ELSE [abort |-> TRUE, ret |-> Bail(<<"Task exited">>)]

\* A faulty match: abort_all is left out of the arms for a finished task.
MatchJoinNextNoAbort(w) ==
    IF ~w.some
    THEN [abort |-> TRUE, ret |-> Bail(NoTasksMsg)]
    ELSE IF w.res.outer = "Ok"
         THEN [abort |-> FALSE, ret |-> Bail(TaskExited(DisplayAppErr(w.res.val)))]
         ELSE [abort |-> FALSE, ret |-> Bail(TaskExited(DisplayJoinErr(w.res)))]

\* A faulty match: an empty set is reported like a finished task.
MatchJoinNextNoneAsExit(w) ==
    IF ~w.some
    THEN [abort |-> TRUE, ret |-> Bail(TaskExited(<<"nothing">>))]
    ELSE IF w.res.outer = "Ok"
         THEN [abort |-> TRUE, ret |-> Bail(TaskExited(DisplayAppErr(w.res.val)))]
         ELSE [abort |-> TRUE, ret |-> Bail(TaskExited(DisplayJoinErr(w.res)))]

\* The match of main_inner on what join_next returned: whether the arm
\* calls abort_all, and the value main_inner returns.
MatchJoinNext(w) ==
    IF ~w.some
    THEN [abort |-> TRUE, ret |-> Bail(NoTasksMsg)]
    ELSE IF w.res.outer = "Ok"
         THEN IF w.res.val.r = "Ok"
              THEN [abort |-> FALSE, ret |-> Bail(ImpossibleMsg)]
              ELSE [abort |-> TRUE,
                    ret |-> Bail(TaskExited(DisplayAppErr(w.res.val)))]
         ELSE [abort |-> TRUE,
               ret |-> Bail(TaskExited(DisplayJoinErr(w.res)))]

\* --------------------------------------------------------------- the state

VARIABLES
    kinds,        \* the tasks main_inner spawns, in order
    pc,           \* main's position: spawn, join_next, bail, returned, exit
    members,      \* the tasks the JoinSet holds
    phase,        \* per task: unspawned, ready, sleeping, done
    fut,          \* per task: the local state of its body
    outcome,      \* per task: its result once done
    cancelReqs,   \* per task: who has requested its cancellation
    abortLog,     \* the tasks abort_all has sent a request, in order
    lastPoll,     \* per task: what the last poll of its future gave
    innerLast,    \* per task: what the last poll of the inner future gave
    outerPolls,   \* per task: polls of the spawned future
    outerPending, \* per task: suspension signals of the spawned future
    innerPolls,   \* per task: polls of the future inside the adapter
    innerPending, \* per task: suspension signals of that inner future
    waited,       \* what join_next returned: pending, None, Some
    observed,     \* the task whose completion join_next returned, or 0
    ret,          \* what main_inner returns
    exitStatus    \* the status the process exits with

vars == <<kinds, pc, members, phase, fut, outcome, cancelReqs, abortLog,
          lastPoll, innerLast,
          outerPolls, outerPending, innerPolls, innerPending, waited,
          observed, ret, exitStatus>>

NoRet == [r |-> "-", msg |-> <<>>]

\* The tasks of this run.
Spawnable == 1..Len(kinds)

Spawned == {i \in Tasks : phase[i] # "unspawned"}

\* The groups considered: every sequence of at most MaxTasks member tasks.
\* main_inner as written spawns ScenarioA; the other groups are what the
\* same wait-and-match code meets when it is given fewer or other tasks.
Groups == UNION {[1..n -> Kinds] : n \in 0..MaxTasks}

\* The group of the example: absurd_future(task_one()), then task_two().
ScenarioA == <<"one", "two">>

\* The groups of at most MaxQuietTasks member tasks.
QuietGroups == UNION {[1..n -> Kinds] : n \in 0..MaxQuietTasks}

\* The state when main_inner starts on the group kinds: JoinSet::new(),
\* nothing spawned yet.
Fresh ==
    /\ pc = IF Len(kinds) = 0 THEN "join_next" ELSE "spawn"
    /\ members = {}
    /\ phase = [i \in Tasks |-> "unspawned"]
    /\ fut = [i \in Tasks |-> FutInit]
    /\ outcome = [i \in Tasks |-> NoOutcome]
    /\ cancelReqs = [i \in Tasks |-> {}]
    /\ abortLog = <<>>
    /\ lastPoll = [i \in Tasks |-> NotPolled]
    /\ innerLast = [i \in Tasks |-> NotPolled]
    /\ outerPolls = [i \in Tasks |-> 0]
    /\ outerPending = [i \in Tasks |-> 0]
    /\ innerPolls = [i \in Tasks |-> 0]
    /\ innerPending = [i \in Tasks |-> 0]
    /\ waited = "pending"
    /\ observed = 0
    /\ ret = NoRet
    /\ exitStatus = "running"

Init ==
    /\ kinds \in Groups
    /\ Fresh

QuietInit ==
    /\ kinds \in QuietGroups
    /\ Fresh

\* ----------------------------------------------------------------- actions

\* A faulty main_inner: it starts to wait after its first spawn.
SpawnWaitsEarly ==
    /\ pc = "spawn"
    /\ LET i == Cardinality({j \in Tasks : phase[j] # "unspawned"}) + 1
       IN  /\ i \in 1..Len(kinds)
           /\ phase' = [phase EXCEPT ![i] = "ready"]
           /\ fut' = [fut EXCEPT ![i] = FutInit]
           /\ members' = members \cup {i}
           /\ pc' = "join_next"
    /\ UNCHANGED <<kinds, abortLog, outcome, cancelReqs, lastPoll, innerLast,
                   outerPolls, outerPending, innerPolls, innerPending,
                   waited, observed, ret, exitStatus>>

\* join_set.spawn(...): the next task of the group is handed to the
\* runtime, which may poll it from then on; absurd_future wraps task_one.
\* After the last spawn main_inner calls join_next.
Spawn ==
    /\ pc = "spawn"
    /\ LET i == Cardinality(Spawned) + 1
       IN  /\ i \in Spawnable
           /\ phase' = [phase EXCEPT ![i] = "ready"]
           /\ fut' = [fut EXCEPT ![i] = IF kinds[i] = "one"
                                         THEN AbsurdFutureNew(FutInit)
                                         ELSE FutInit]
           /\ members' = members \cup {i}
           /\ pc' = IF i = Len(kinds) THEN "join_next" ELSE "spawn"
    /\ UNCHANGED <<kinds, abortLog, outcome, cancelReqs, lastPoll, innerLast,
                   outerPolls, outerPending, innerPolls, innerPending,
                   waited, observed, ret, exitStatus>>

\* What one poll of task i's spawned future gives.
PollOf(i, stdoutOk) ==
    IF kinds[i] = "one"
    THEN AbsurdFuturePoll(fut[i], stdoutOk)
    ELSE LET two == TaskTwoPoll(fut[i], stdoutOk)
         IN  [res |-> two.res, s |-> two.s, innerRes |-> <<>>]

\* The runtime polls a notified task once.  Pending suspends it on its
\* sleep; Ready completes it with the value; a panic is caught by the
\* runtime and completes it with a JoinError.
PollStep(i, stdoutOk) ==
    /\ pc # "exit"
    /\ phase[i] = "ready"
    /\ cancelReqs[i] = {}
    /\    LET r == PollOf(i, stdoutOk)
          IN  /\ fut' = [fut EXCEPT ![i] = r.s]
              /\ lastPoll' = [lastPoll EXCEPT ![i] = r.res]
              /\ innerLast' = [innerLast EXCEPT
                                 ![i] = IF r.innerRes = <<>> THEN @
                                        ELSE r.innerRes[Len(r.innerRes)]]
              /\ outerPolls' = [outerPolls EXCEPT ![i] = @ + 1]
              /\ outerPending' = [outerPending EXCEPT
                                    ![i] = @ + Pendings(<<r.res>>)]
              /\ innerPolls' = [innerPolls EXCEPT ![i] = @ + Len(r.innerRes)]
              /\ innerPending' = [innerPending EXCEPT
                                    ![i] = @ + Pendings(r.innerRes)]
              /\ phase' = [phase EXCEPT
                             ![i] = IF r.res = PollPending
                                    THEN "sleeping" ELSE "done"]
              /\ outcome' = [outcome EXCEPT
                               ![i] = IF r.res = PollPending THEN NoOutcome
                                      ELSE IF r.res = PollPanic
                                           THEN JoinErr("Panic", i)
                                           ELSE JoinOk(r.res.v)]
    /\ UNCHANGED <<kinds, abortLog, pc, members, cancelReqs, waited,
                   observed, ret, exitStatus>>

\* Whether stdout can be written is the environment's choice.
PollTask(i) == \E stdoutOk \in BOOLEAN : PollStep(i, stdoutOk)

\* tokio::time::sleep(...).await: the timer of a suspended task fires and
\* the task is notified.
TimerFire(i) ==
    /\ pc # "exit"
    /\ phase[i] = "sleeping"
    /\ fut[i].cycles < MaxCycles
    /\ phase' = [phase EXCEPT ![i] = "ready"]
    /\ UNCHANGED <<kinds, abortLog, pc, members, fut, outcome, cancelReqs,
                   lastPoll, innerLast, outerPolls, outerPending, innerPolls,
                   innerPending, waited, observed, ret, exitStatus>>

\* An actor outside the group aborts a running task while the group is
\* still being set up or waited on.
ExternalAbort(i) ==
    /\ pc \in {"spawn", "join_next"}
    /\ phase[i] \in {"ready", "sleeping"}
    /\ "external" \notin cancelReqs[i]
    /\ cancelReqs' = [cancelReqs EXCEPT ![i] = @ \cup {"external"}]
    /\ UNCHANGED <<kinds, abortLog, pc, members, phase, fut, outcome,
                   lastPoll, innerLast, outerPolls, outerPending, innerPolls,
                   innerPending, waited, observed, ret, exitStatus>>

\* The runtime honours a cancellation request: the task's future is
\* dropped at its suspension point and the task ends with a JoinError.
HonourCancel(i) ==
    /\ pc # "exit"
    /\ phase[i] \in {"ready", "sleeping"}
    /\ cancelReqs[i] # {}
    /\ phase' = [phase EXCEPT ![i] = "done"]
    /\ outcome' = [outcome EXCEPT ![i] = JoinErr("Cancelled", i)]
    /\ UNCHANGED <<kinds, abortLog, pc, members, fut, cancelReqs, lastPoll,
                   innerLast, outerPolls, outerPending, innerPolls,
                   innerPending, waited, observed, ret, exitStatus>>

\* A faulty abort_all: it requests nothing.
AbortAllNothing(reqs, held, who) == reqs

\* A faulty abort_all: it stops after its first request.
AbortAllFirstOnly(reqs, held, who) ==
    IF held = <<>> THEN reqs
    ELSE [reqs EXCEPT ![Head(held)] = @ \cup {who}]

\* join_set.abort_all(): a cancellation request to every task the set
\* still holds, one after the other in the order held.
RECURSIVE AbortAll(_, _, _)
AbortAll(reqs, held, who) ==
    IF held = <<>> THEN reqs
    ELSE AbortAll([reqs EXCEPT ![Head(held)] = @ \cup {who}], Tail(held), who)

\* The orders in which the tasks of a set can be gone through.
Orders(S) ==
    {o \in [1..Cardinality(S) -> S] :
        \A a, b \in 1..Cardinality(S) : a # b => o[a] # o[b]}


\* main_inner from join_next's answer w to its bail!, the set then
\* holding the tasks in rest: the match, abort_all, and the error built.
AfterJoinNext(w, rest) ==
    LET m == MatchJoinNext(w)
    IN  /\ \E order \in Orders(rest) :
              /\ cancelReqs' = IF m.abort
                               THEN AbortAll(cancelReqs, order, "abort_all")
                               ELSE cancelReqs
              /\ abortLog' = IF m.abort THEN order ELSE <<>>
        /\ ret' = m.ret
        /\ members' = rest
        /\ pc' = "bail"

\* A faulty wait: it returns only when every task of the set has finished.
JoinNextWaitsAll ==
    /\ pc = "join_next"
    /\ \A j \in members : phase[j] = "done"
    /\ \/ /\ members = {}
          /\ waited' = "None"
          /\ observed' = 0
          /\ AfterJoinNext(WaitNone, {})
       \/ \E i \in members :
             /\ waited' = "Some"
             /\ observed' = i
             /\ AfterJoinNext(WaitSome(outcome[i]), members \ {i})
    /\ UNCHANGED <<kinds, phase, fut, outcome, lastPoll, innerLast,
                   outerPolls, outerPending, innerPolls, innerPending,
                   exitStatus>>

\* join_set.join_next().await and the match on its answer: None when the
\* set is empty, otherwise the result of a task that has finished, which
\* leaves the set; with several finished the runtime picks.
JoinNext ==
    /\ pc = "join_next"
    /\ \/ /\ members = {}
          /\ waited' = "None"
          /\ observed' = 0
          /\ AfterJoinNext(WaitNone, {})
       \/ \E i \in members :
             /\ phase[i] = "done"
             /\ waited' = "Some"
             /\ observed' = i
             /\ AfterJoinNext(WaitSome(outcome[i]), members \ {i})
    /\ UNCHANGED <<kinds, phase, fut, outcome, lastPoll, innerLast,
                   outerPolls, outerPending, innerPolls, innerPending,
                   exitStatus>>

\* A faulty return: main_inner first waits until every task left in the
\* set has finished.
ReturnDropWaits ==
    /\ pc = "bail"
    /\ \A j \in members : phase[j] = "done"
    /\ cancelReqs' = cancelReqs
    /\ members' = {}
    /\ pc' = "returned"
    /\ UNCHANGED <<kinds, abortLog, phase, fut, outcome, lastPoll, innerLast,
                   outerPolls, outerPending, innerPolls, innerPending,
                   waited, observed, ret, exitStatus>>

\* main_inner returns: its JoinSet goes out of scope, and dropping a
\* JoinSet aborts the tasks it holds.
ReturnDrop ==
    /\ pc = "bail"
    /\ \E order \in Orders(members) :
          cancelReqs' = AbortAll(cancelReqs, order, "drop")
    /\ members' = {}
    /\ pc' = "returned"
    /\ UNCHANGED <<kinds, abortLog, phase, fut, outcome, lastPoll, innerLast,
                   outerPolls, outerPending, innerPolls, innerPending,
                   waited, observed, ret, exitStatus>>

\* A faulty main: the result of main_inner is dropped.
MainStatusIgnores(r) == "success"

\* main: `main_inner().await?` returns the error, and the process exits
\* with a failure status; otherwise Ok(()).
MainStatus(r) == IF r.r = "Err" THEN "failure" ELSE "success"

MainReturn ==
    /\ pc = "returned"
    /\ exitStatus' = MainStatus(ret)
    /\ pc' = "exit"
    /\ UNCHANGED <<kinds, abortLog, members, phase, fut, outcome, cancelReqs,
                   lastPoll, innerLast, outerPolls, outerPending, innerPolls,
                   innerPending, waited, observed, ret>>

Next ==
    \/ Spawn
    \/ \E i \in Tasks : PollTask(i)
    \/ \E i \in Tasks : TimerFire(i)
    \/ \E i \in Tasks : ExternalAbort(i)
    \/ \E i \in Tasks : HonourCancel(i)
    \/ JoinNext
    \/ ReturnDrop
    \/ MainReturn

Spec == Init /\ [][Next]_vars

\* The group when nothing disturbs it: stdout can always be written, so no
\* task panics, and no outside actor aborts a task.
QuietNext ==
    \/ Spawn
    \/ \E i \in Tasks : PollStep(i, TRUE)
    \/ \E i \in Tasks : TimerFire(i)
    \/ \E i \in Tasks : HonourCancel(i)
    \/ JoinNext
    \/ ReturnDrop
    \/ MainReturn

QuietSpec == QuietInit /\ [][QuietNext]_vars

\* The undisturbed groups of at most MaxTasks tasks, main_inner's own among
\* them, under a fair runtime: a notified task is polled, a timer that is
\* set fires, a requested cancellation is honoured, and main, which
\* block_on drives, takes its next step when it can.
FairSpec ==
    /\ Init
    /\ [][QuietNext]_vars
    /\ \A i \in Tasks : WF_vars(PollStep(i, TRUE))
    /\ \A i \in Tasks : WF_vars(TimerFire(i))
    /\ \A i \in Tasks : WF_vars(HonourCancel(i))
    /\ WF_vars(Spawn)
    /\ WF_vars(JoinNext)
    /\ WF_vars(ReturnDrop)
    /\ WF_vars(MainReturn)

\* ------------------------------------------------------------------ claims

\* main_inner has built its report (and may have returned it).
Reported == pc \in {"bail", "returned", "exit"}

\* The tasks spawned through the adapter.
Wrapped == {i \in Spawnable : kinds[i] = "one"}

\* No task has panicked and no outside actor has aborted one.
Undisturbed ==
    \A j \in Tasks : "external" \notin cancelReqs[j] /\ outcome[j].repr # "Panic"

\* The report for a task that bailed with CounterMsg.
CounterReport == [r |-> "Err", msg |-> <<"Task exited with", "Counter is >= 3">>]

\* C1: a poll of the adapter never returns Ready, however often it is
\* driven, and a task spawned through the adapter never finishes with a value:
\* it is suspended, or it ended by a panic or a cancellation.
C1_AdapterNeverCompletes ==
    \A i \in Wrapped :
        /\ lastPoll[i].p \in {"none", "Pending", "Panic"}
        /\ outerPending[i] + (IF lastPoll[i].p = "Panic" THEN 1 ELSE 0)
             = outerPolls[i]
        /\ outcome[i].outer # "Ok"

C1_Witness ==
    \E i \in Wrapped : outerPolls[i] >= 3 /\ lastPoll[i] = PollPending

\* C2: over any number of drive steps the adapter has polled its inner
\* future exactly once per step and has produced exactly as many suspension
\* signals as the inner future.
C2_SuspensionPassThrough ==
    \A i \in Wrapped :
        /\ innerPolls[i] = outerPolls[i]
        /\ innerPending[i] = outerPending[i]

C2_Witness ==
    \E i \in Wrapped : outerPolls[i] >= 3 /\ outerPending[i] >= 3

\* C3: in a group where exactly one task can fail and nothing disturbs the
\* others, once the group has its report the report is that task's failure
\* and every other task has a cancellation request from abort_all.
C3_FirstFailureWins ==
    LET failing == {i \in Spawnable : kinds[i] = "two"}
    IN  (Cardinality(failing) = 1 /\ Undisturbed /\ Reported) =>
            /\ observed \in failing
            /\ ret = CounterReport
            /\ \A j \in Spawnable \ failing : "abort_all" \in cancelReqs[j]

C3_Witness ==
    /\ Len(kinds) = 2
    /\ kinds[1] = "two"
    /\ kinds[2] = "one"
    /\ Undisturbed
    /\ pc = "returned"
    /\ observed = 1
    /\ "abort_all" \in cancelReqs[2]

\* C4 as stated: in Scenario A, undisturbed, the group reports only after
\* task Y has completed three sleep cycles, and reports Y's failure.
C4_ThreeCycles ==
    (kinds = ScenarioA /\ Undisturbed /\ Reported) =>
        /\ fut[2].cycles >= 3
        /\ ret = CounterReport

\* C4 amended: in Scenario A, undisturbed, task Y finishes only with its
\* failure and only after exactly two sleep cycles (its counter starts at 1
\* and is incremented before each sleep); the group reports after that and
\* reports Y's failure.
C4_TwoCycles ==
    (kinds = ScenarioA /\ Undisturbed) =>
        /\ phase[2] = "done" =>
              /\ fut[2].cycles = 2
              /\ fut[2].counter = 3
              /\ outcome[2] = JoinOk(ResErr("Counter is >= 3"))
        /\ Reported =>
              /\ phase[2] = "done"
              /\ observed = 2
              /\ ret = CounterReport

C4_Witness ==
    /\ kinds = ScenarioA
    /\ Undisturbed
    /\ pc = "bail"
    /\ observed = 2
    /\ fut[2].cycles = 2

\* C5: a group that holds no task gets None from join_next, reports "No
\* tasks found in task set" and nothing else, and has requested no
\* cancellation.
C5_EmptyGroup ==
    (Len(kinds) = 0 /\ Reported) =>
        /\ waited = "None"
        /\ ret = [r |-> "Err", msg |-> <<"No tasks found in task set">>]
        /\ \A j \in Tasks : cancelReqs[j] = {}

C5_Witness ==
    /\ Len(kinds) = 0
    /\ pc = "exit"
    /\ waited = "None"

\* C6: when the completion the group observed is that of a task an outside
\* actor aborted, the report names the cancellation and differs from the
\* report of every application failure.
C6_CancelledDistinct ==
    (Reported /\ waited = "Some" /\ outcome[observed].repr = "Cancelled") =>
        /\ ret.r = "Err"
        /\ ret.msg = <<"Task exited with", "task", ToString(observed),
                       "was cancelled">>
        /\ \A m \in AppErrors :
              ret # MatchJoinNext(WaitSome(JoinOk(ResErr(m)))).ret

C6_Witness ==
    /\ Reported
    /\ waited = "Some"
    /\ outcome[observed].repr = "Cancelled"
    /\ "external" \in cancelReqs[observed]

\* C7: main_inner never returns Ok and the process never exits with
\* success: once main_inner has returned its value is an error, and the
\* exit status is failure.
C7_NeverSuccess ==
    /\ pc \in {"returned", "exit"} => ret.r = "Err"
    /\ pc = "exit" => exitStatus = "failure"
    /\ exitStatus # "success"

C7_Witness ==
    /\ pc = "exit"
    /\ exitStatus = "failure"
    /\ waited = "Some"

\* C8: whatever the outcome of the completion the group observed, once the
\* group has its report every task left in the set has a cancellation
\* request from abort_all.
C8_CancelOnAnyCompletion ==
    (Reported /\ waited = "Some") =>
        \A j \in Spawnable \ {observed} : "abort_all" \in cancelReqs[j]

C8_Witness ==
    /\ pc = "bail"
    /\ waited = "Some"
    /\ outcome[observed].repr = "Panic"
    /\ \E j \in Spawnable \ {observed} :
          phase[j] = "sleeping" /\ "abort_all" \in cancelReqs[j]

\* C10: when the completion the group observed is a panic, the report names
\* the panic and differs from the report of every application failure.
C10_PanicDistinct ==
    (Reported /\ waited = "Some" /\ outcome[observed].repr = "Panic") =>
        /\ ret.r = "Err"
        /\ ret.msg = <<"Task exited with", "task", ToString(observed),
                       "panicked">>
        /\ \A m \in AppErrors :
              ret # MatchJoinNext(WaitSome(JoinOk(ResErr(m)))).ret

C10_Witness ==
    /\ Reported
    /\ waited = "Some"
    /\ outcome[observed].repr = "Panic"
    /\ kinds[observed] = "two"

\* C11: the only way a computation inside the adapter can fail is a panic
\* of its poll (its output type has no failure arm); that failure leaves the
\* adapter's poll as the same panic, neither turned into a suspension nor
\* into a value, and the task ends with the panic as its JoinError; the
\* adapter raises no failure the inner poll did not raise.
C11_FailurePassesThrough ==
    \A i \in Wrapped :
        /\ (innerLast[i] = PollPanic) <=> (lastPoll[i] = PollPanic)
        /\ innerLast[i] = PollPanic =>
              /\ phase[i] = "done"
              /\ outcome[i] = JoinErr("Panic", i)
        /\ outcome[i].repr = "Panic" => innerLast[i] = PollPanic

C11_Witness ==
    \E i \in Wrapped :
        /\ innerLast[i] = PollPanic
        /\ outerPending[i] >= 2
        /\ outcome[i].repr = "Panic"

C14_OneCompletionConsumed ==
    /\ [](pc # "spawn" => Spawned = Spawnable)
    /\ [](pc = "join_next" =>
            waited = "pending" /\ observed = 0 /\ members = Spawnable)
    /\ []((pc = "bail" /\ waited = "Some") =>
            observed \in Spawnable /\ members = Spawnable \ {observed})
    /\ [][Reported => (ret' = ret /\ observed' = observed)]_vars

C14_Witness ==
    /\ pc = "exit"
    /\ waited = "Some"
    /\ \E j \in Spawnable \ {observed} :
          /\ phase[j] = "done"
          /\ outcome[j].repr = "Cancelled"
          /\ "external" \notin cancelReqs[j]

\* C15: under a fair runtime the Scenario A group reaches the point where
\* it has its report and abort_all has sent task X its request while
\* task X has not finished, and the process then exits.
C15_ScenarioATerminates ==
    (kinds = ScenarioA) =>
        /\ <>(/\ pc = "bail"
              /\ phase[1] # "done"
              /\ "abort_all" \in cancelReqs[1])
        /\ <>(pc = "exit")

C15_Witness ==
    /\ kinds = ScenarioA
    /\ pc = "exit"
    /\ phase[1] = "sleeping"
    /\ fut[1].cycles = MaxCycles
    /\ "abort_all" \in cancelReqs[1]

\* C16: in main_inner as written, undisturbed, join_next never answers
\* None, the report is never the "Impossible" or the "No tasks" one, the
\* wrapped task_one never finishes with a value and is never the task
\* observed; the completion observed is task_two's application failure.
C16_OnlyTaskTwoObserved ==
    (kinds = ScenarioA) =>
        /\ waited # "None"
        /\ ret.msg # <<"Impossible: Infallible witnessed!">>
        /\ ret.msg # <<"No tasks found in task set">>
        /\ observed # 1
        /\ outcome[1].outer # "Ok"
        /\ Reported =>
              /\ observed = 2
              /\ outcome[2] = JoinOk(ResErr("Counter is >= 3"))
              /\ ret = CounterReport

C16_Witness ==
    /\ kinds = ScenarioA
    /\ pc = "returned"
    /\ observed = 2
    /\ outerPolls[1] >= 2
    /\ outcome[1] = JoinErr("Cancelled", 1)

\* C17: wrapping a future starts the task without a failure and leaves the
\* inner future as it was: until the adapter's first poll the inner state is
\* the initial one and the inner future has not been polled, and the inner
\* future is never polled more often than the adapter.
C17_ConstructionIsInert ==
    \A i \in Wrapped :
        /\ innerPolls[i] <= outerPolls[i]
        /\ (phase[i] # "unspawned" /\ outerPolls[i] = 0) =>
              /\ fut[i] = FutInit
              /\ innerPolls[i] = 0
              /\ innerLast[i] = NotPolled
              /\ outcome[i] \in {NoOutcome, JoinErr("Cancelled", i)}

C17_Witness ==
    \E i \in Wrapped :
        /\ phase[i] = "ready"
        /\ outerPolls[i] = 0
        /\ fut[i] = FutInit

====
